---- MODULE Spec2Model ----
(***************************************************************************)
(* timelineomat: occlusion resolution of a candidate event against         *)
(* reference timelines (streamline_event_times, streamline_event),         *)
(* ordered insertion into a timeline (ordered_insert) and the two combined *)
(* (streamlined_ordered_insert).                                           *)
(*                                                                         *)
(* Time points are integers 0..MaxTime: every boundary in the model is     *)
(* already a datetime of one timezone-awareness and no fallback timezone   *)
(* is configured, so handle_result returns its argument (lines 110-113).   *)
(* An event is a record; a field that the record does not have is a        *)
(* missing key / attribute.  Python indices are 0-based, TLA+ sequences    *)
(* 1-based: positions and offsets below are Python's.                      *)
(***************************************************************************)
EXTENDS Integers, Sequences, FiniteSets, TLC

VARIABLES event, timeline, occlusions, call, ret, stream

vars == <<event, timeline, occlusions, call, ret, stream>>

----------------------------------------------------------------------------
(* Bounds *)

MaxTime == 3

MaxRefs == 2

MaxLen == 3

MaxStream == 3

Times == 0..MaxTime

----------------------------------------------------------------------------
(* Events *)

\* An event with both boundaries; hidden is the attribute the model's filter reads.
Ev(a, b, h) == [start |-> a, stop |-> b, hidden |-> h]

\* The {} entry of the tests: no start, no stop.
EmptyEvent == [hidden |-> FALSE]

ValidEvents == {e \in {Ev(a, b, FALSE) : a, b \in Times} : e.stop > e.start}

\* Every event the caller may hand in as the candidate: any pair of boundaries, or {}.
Candidates == {Ev(a, b, FALSE) : a, b \in Times} \cup {EmptyEvent}

\* Invalid entries of a timeline: {}, a zero duration, a reversed interval.
InvalidEntries == {EmptyEvent, Ev(1, 1, FALSE), Ev(MaxTime, 0, FALSE)}

\* Entries of a reference timeline: valid events, filter-visible or not, and invalid ones.
RefEvents == ValidEvents \cup {Ev(e.start, e.stop, TRUE) : e \in ValidEvents} \cup InvalidEntries

\* Entries of an ordered timeline.
PlainEvents == ValidEvents \cup InvalidEntries

SeqsUpTo(S, n) == UNION {[1..k -> S] : k \in 0..n}

TimeRangeTuple(a, b) == [start |-> a, stop |-> b]

NoTuple == TimeRangeTuple(0, 0)

\* Python's tuple comparison of two TimeRangeTuples.
TupleLess(s, t) == s.start < t.start \/ (s.start = t.start /\ s.stop < t.stop)

----------------------------------------------------------------------------
(* Field access and interval extraction *)

\* create_extractor for a field name: the value, or SkipInvalidEvent when the key is missing.
create_extractor(extractor, ev) ==
    IF extractor \in DOMAIN ev
    THEN [ok |-> TRUE, value |-> ev[extractor]]
    ELSE [ok |-> FALSE, value |-> 0]

handle_result(result) == result

\* ok = FALSE is SkipInvalidEvent.
extract_tuple_allowing_zero(ev, start_extractor, stop_extractor) ==
    LET s == create_extractor(start_extractor, ev)
        e == create_extractor(stop_extractor, ev)
    IN  IF ~s.ok \/ ~e.ok
        THEN [ok |-> FALSE, times |-> NoTuple]
        ELSE IF handle_result(e.value) < handle_result(s.value)
             THEN [ok |-> FALSE, times |-> NoTuple]
             ELSE [ok |-> TRUE,
                   times |-> TimeRangeTuple(handle_result(s.value), handle_result(e.value))]

extract_tuple_from_event(ev, start_extractor, stop_extractor) ==
    LET s == create_extractor(start_extractor, ev)
        e == create_extractor(stop_extractor, ev)
    IN  IF ~s.ok \/ ~e.ok
        THEN [ok |-> FALSE, times |-> NoTuple]
        ELSE IF handle_result(e.value) <= handle_result(s.value)
             THEN [ok |-> FALSE, times |-> NoTuple]
             ELSE [ok |-> TRUE,
                   times |-> TimeRangeTuple(handle_result(s.value), handle_result(e.value))]

Extract(ev) == extract_tuple_from_event(ev, "start", "stop")

\* What the caller sees of an event: whether it has a positive duration, and its interval.
ValidInterval(ev) == "start" \in DOMAIN ev /\ "stop" \in DOMAIN ev /\ ev.stop > ev.start

Interval(ev) == TimeRangeTuple(ev.start, ev.stop)

----------------------------------------------------------------------------
(* Occlusion resolution: _streamline_event_times *)

\* The filters callers pass: none, or one that rejects hidden events.
FilterFns == {"None", "visible"}

\* "if filter_fn and not filter_fn(ev): continue"
FilterNeverRejects(filter_fn, ev) == FALSE

FilterRejects(filter_fn, ev) == filter_fn /= "None" /\ ev.hidden

\* "if ev_start <= start and ev_stop >= stop"
FullyContains(ev_times, start, stop) == ev_times.start <= start /\ ev_times.stop >= stop

\* "if ev_start <= start and ev_stop > start: start = ev_stop"
NoLeftShrink(ev_times, start) == start

LeftShrinkToRefStart(ev_times, start) ==
    IF ev_times.start <= start /\ ev_times.stop > start THEN ev_times.start ELSE start

LeftShrink(ev_times, start) ==
    IF ev_times.start <= start /\ ev_times.stop > start THEN ev_times.stop ELSE start

\* "if ev_start < stop and ev_stop >= stop: stop = ev_start"
RightShrink(ev_times, stop) ==
    IF ev_times.start < stop /\ ev_times.stop >= stop THEN ev_times.start ELSE stop

\* raise SkipOccludedEvent(original=orig_tuple); start, stop are the shrunk boundaries
OccludedShrunk(orig_tuple, start, stop, consulted) ==
    [status |-> "SkipOccludedEvent", new |-> NoTuple,
     orig |-> TimeRangeTuple(start, stop), consulted |-> consulted]

Occluded(orig_tuple, start, stop, consulted) ==
    [status |-> "SkipOccludedEvent", new |-> NoTuple, orig |-> orig_tuple,
     consulted |-> consulted]

\* The for loop over the chained references, from reference i on; consulted
\* counts the references the loop has taken from the iterator.
RECURSIVE StreamlineLoop(_, _, _, _, _, _)
StreamlineLoop(refs, i, start, stop, filter_fn, orig_tuple) ==
    IF i > Len(refs)
    THEN [status |-> "ok", new |-> TimeRangeTuple(start, stop), orig |-> orig_tuple,
          consulted |-> Len(refs)]
    ELSE LET ev == refs[i]
             t  == Extract(ev)
         IN  IF FilterRejects(filter_fn, ev)
             THEN StreamlineLoop(refs, i + 1, start, stop, filter_fn, orig_tuple)
             ELSE IF ~t.ok
             THEN StreamlineLoop(refs, i + 1, start, stop, filter_fn, orig_tuple)
             ELSE IF FullyContains(t.times, start, stop)
             THEN Occluded(orig_tuple, start, stop, i)
             ELSE LET start2 == LeftShrink(t.times, start)
                      stop2  == RightShrink(t.times, stop)
                  IN  IF stop2 <= start2
                      THEN Occluded(orig_tuple, start2, stop2, i)
                      ELSE StreamlineLoop(refs, i + 1, start2, stop2, filter_fn, orig_tuple)

\* chain.from_iterable(timelines)
RECURSIVE Chain(_)
Chain(timelines) ==
    IF timelines = <<>> THEN <<>> ELSE Head(timelines) \o Chain(Tail(timelines))

\* timelines is the tuple of timelines passed; empty when the caller omits them
\* (the falsy _empty of line 185, returned at line 158).
_streamline_event_times(ev, timelines, filter_fn) ==
    LET o == Extract(ev)
    IN  IF ~o.ok
        THEN [status |-> "SkipInvalidEvent", new |-> NoTuple, orig |-> NoTuple, consulted |-> 0]
        ELSE IF timelines = <<>>
        THEN [status |-> "ok", new |-> o.times, orig |-> o.times, consulted |-> 0]
        ELSE StreamlineLoop(Chain(timelines), 1, o.times.start, o.times.stop, filter_fn, o.times)

\* Lines 191-195: the records appended after a successful pass.
SuccessRecordsSwapped(new_tuple, orig_tuple) ==
    (IF orig_tuple.stop /= new_tuple.stop
     THEN <<TimeRangeTuple(new_tuple.stop, orig_tuple.stop)>> ELSE <<>>)
    \o (IF orig_tuple.start /= new_tuple.start
        THEN <<TimeRangeTuple(orig_tuple.start, new_tuple.start)>> ELSE <<>>)

SuccessRecords(new_tuple, orig_tuple) ==
    IF new_tuple = orig_tuple THEN <<>>
    ELSE (IF orig_tuple.start /= new_tuple.start
          THEN <<TimeRangeTuple(orig_tuple.start, new_tuple.start)>> ELSE <<>>)
         \o (IF orig_tuple.stop /= new_tuple.stop
             THEN <<TimeRangeTuple(new_tuple.stop, orig_tuple.stop)>> ELSE <<>>)

\* collect: whether a collector was passed (occlusions is not None); occl: its contents.
streamline_event_times(ev, timelines, collect, occl, filter_fn) ==
    LET r == _streamline_event_times(ev, timelines, filter_fn)
    IN  [status |-> r.status, value |-> r.new, original |-> r.orig, consulted |-> r.consulted,
         occlusions |->
             IF ~collect THEN occl
             ELSE IF r.status = "SkipOccludedEvent" THEN Append(occl, r.orig)
             ELSE IF r.status = "ok" THEN occl \o SuccessRecords(r.new, r.orig)
             ELSE occl]

----------------------------------------------------------------------------
(* Designators of the two boundary fields: names and callables *)

\* isinstance(x, str): a field name.
FieldNames == {"start", "stop"}

\* The callables of the model.  get_start, get_stop: what create_extractor
\* returns for the names (lines 71-79), also passed by callers as extractors.
\* set_start, set_stop: what create_setter returns for the names (lines 99-105),
\* also passed by callers as setters.  no_call: the setter of lines 93-96.
CallableField(fn) == IF fn \in {"get_start", "set_start"} THEN "start" ELSE "stop"

NameExtractor(name) == IF name = "start" THEN "get_start" ELSE "get_stop"

NameSetter(name) == IF name = "start" THEN "set_start" ELSE "set_stop"

\* The keyword arguments start_extractor, stop_extractor, start_setter,
\* stop_setter; "None" is a setter that was not passed.
Accessors ==
    [start_extractor : {"start", "get_start"}, stop_extractor : {"stop", "get_stop"},
     start_setter : {"None", "start", "set_start"}, stop_setter : {"None", "stop", "set_stop"}]

DefaultAccessors ==
    [start_extractor |-> "start", stop_extractor |-> "stop",
     start_setter |-> "None", stop_setter |-> "None"]

\* create_setter(setter, disallow_call=..., disallow_call_instant=...): the
\* callable returned, or NoCallAllowedError raised on the spot.
NewSetter(setter, disallow_call, disallow_call_instant) ==
    IF setter \notin FieldNames
    THEN IF disallow_call_instant
         THEN [status |-> "NoCallAllowedError", setter |-> "no_call"]
         ELSE IF disallow_call
         THEN [status |-> "ok", setter |-> "no_call"]
         ELSE [status |-> "ok", setter |-> setter]
    ELSE [status |-> "ok", setter |-> NameSetter(setter)]

----------------------------------------------------------------------------
(* TimelineOMat: the configuration bound at construction *)

\* TimelineOMat(start_extractor=..., stop_extractor=..., start_setter=...,
\* stop_setter=..., filter_fn=..., direction=...)
TimelineOMat_init(acc, filter_fn, direction) ==
    [start_extractor |-> IF acc.start_extractor \in FieldNames
                         THEN NameExtractor(acc.start_extractor) ELSE acc.start_extractor,
     stop_extractor |-> IF acc.stop_extractor \in FieldNames
                        THEN NameExtractor(acc.stop_extractor) ELSE acc.stop_extractor,
     start_setter |-> IF acc.start_setter /= "None"
                      THEN NewSetter(acc.start_setter, FALSE, FALSE).setter
                      ELSE NewSetter(acc.start_extractor, TRUE, FALSE).setter,
     stop_setter |-> IF acc.stop_setter /= "None"
                     THEN NewSetter(acc.stop_setter, FALSE, FALSE).setter
                     ELSE NewSetter(acc.stop_extractor, TRUE, FALSE).setter,
     filter_fn |-> filter_fn, direction |-> direction]

TimelineOMat(filter_fn, direction) == TimelineOMat_init(DefaultAccessors, filter_fn, direction)

\* A method call that passes no keyword arguments.
NoKwargs == <<>>

\* kwargs.get(name, default)
KwGet(kwargs, name, default) == IF name \in DOMAIN kwargs THEN kwargs[name] ELSE default

TimelineOMat_streamline_event_times(tm, ev, timelines, kwargs, occl) ==
    streamline_event_times(ev, timelines, "occlusions" \in DOMAIN kwargs, occl,
                           KwGet(kwargs, "filter_fn", tm.filter_fn))

----------------------------------------------------------------------------
(* Calls of streamline_event_times on a candidate and a reference timeline *)

NoCall == [op |-> "none", offset |-> 0, direction |-> "asc", filter_fn |-> "None",
           collect |-> FALSE, omitted |-> FALSE, before |-> <<>>,
           accessors |-> DefaultAccessors]

NoRet == [status |-> "none", value |-> NoTuple, original |-> NoTuple, position |-> 0 - 1, offset |-> 0 - 1, consulted |-> 0]

ResolveReturn(r, filter_fn, collect, omitted) ==
    /\ call' = [NoCall EXCEPT !.op = "streamline_event_times", !.filter_fn = filter_fn,
                              !.collect = collect, !.omitted = omitted, !.before = timeline]
    /\ ret' = [NoRet EXCEPT !.status = r.status, !.value = r.value,
                            !.original = r.original, !.consulted = r.consulted]
    /\ occlusions' = r.occlusions
    /\ UNCHANGED <<event, timeline, stream>>

\* timelineomat.streamline_event_times(event, timeline, occlusions=..., filter_fn=...)
StreamlineEventTimes ==
    /\ call.op = "none"
    /\ \E filter_fn \in FilterFns, collect \in BOOLEAN :
          ResolveReturn(streamline_event_times(event, <<timeline>>, collect, occlusions, filter_fn),
                        filter_fn, collect, FALSE)

\* timelineomat.streamline_event_times(event): the timelines omitted
StreamlineEventTimesOmitted ==
    /\ call.op = "none"
    /\ timeline = <<>>
    /\ \E filter_fn \in FilterFns, collect \in BOOLEAN :
          ResolveReturn(streamline_event_times(event, <<>>, collect, occlusions, filter_fn),
                        filter_fn, collect, TRUE)

\* TimelineOMat(filter_fn=...).streamline_event_times(event, timeline, occlusions=...)
MethodStreamlineEventTimes ==
    /\ call.op = "none"
    /\ \E filter_fn \in FilterFns, collect \in BOOLEAN :
          LET tm == TimelineOMat(filter_fn, "asc")
              kwargs == IF collect THEN [occlusions |-> occlusions] ELSE NoKwargs
          IN  ResolveReturn(TimelineOMat_streamline_event_times(tm, event, <<timeline>>, kwargs, occlusions),
                            filter_fn, collect, FALSE)

\* TimelineOMat(filter_fn=...).streamline_event_times(event): the timelines omitted
MethodStreamlineEventTimesOmitted ==
    /\ call.op = "none"
    /\ timeline = <<>>
    /\ \E filter_fn \in FilterFns, collect \in BOOLEAN :
          LET tm == TimelineOMat(filter_fn, "asc")
              kwargs == IF collect THEN [occlusions |-> occlusions] ELSE NoKwargs
          IN  ResolveReturn(TimelineOMat_streamline_event_times(tm, event, <<>>, kwargs, occlusions),
                            filter_fn, collect, TRUE)

----------------------------------------------------------------------------
(* Event mutation: streamline_event *)

\* The _setter of create_setter for a field name: event[setter] = value /
\* setattr(event, setter, value)
create_setter(setter, ev, value) ==
    [f \in DOMAIN ev \cup {setter} |-> IF f = setter THEN value ELSE ev[f]]

\* setter_fn(event, value): the event written, or NoCallAllowedError from the
\* setter of lines 93-96.
CallSetter(setter_fn, ev, value) ==
    IF setter_fn = "no_call"
    THEN [status |-> "NoCallAllowedError", event |-> ev]
    ELSE [status |-> "ok", event |-> create_setter(CallableField(setter_fn), ev, value)]

\* Lines 225-226: the two writes, the start first.
WriteBack(start_setter, stop_setter, ev, new_tuple, occl) ==
    LET w1 == CallSetter(start_setter, ev, new_tuple.start)
    IN  IF w1.status /= "ok"
        THEN [status |-> w1.status, event |-> w1.event, occlusions |-> occl]
        ELSE LET w2 == CallSetter(stop_setter, w1.event, new_tuple.stop)
             IN  [status |-> w2.status, event |-> w2.event, occlusions |-> occl]

\* streamline_event with its keyword arguments acc.  The extractors of the
\* model, names or callables, read the fields start and stop, so the call of
\* lines 218-224 is streamline_event_times of the model.
streamline_event_with(ev, timelines, collect, occl, filter_fn, acc) ==
    IF timelines = <<>>
    THEN [status |-> "ok", event |-> ev, occlusions |-> occl]
    ELSE LET ss == IF acc.start_setter /= "None"
                   THEN NewSetter(acc.start_setter, FALSE, FALSE)
                   ELSE NewSetter(acc.start_extractor, FALSE, TRUE)
             es == IF acc.stop_setter /= "None"
                   THEN NewSetter(acc.stop_setter, FALSE, FALSE)
                   ELSE NewSetter(acc.stop_extractor, FALSE, TRUE)
         IN  IF ss.status /= "ok"
             THEN [status |-> ss.status, event |-> ev, occlusions |-> occl]
             ELSE IF es.status /= "ok"
             THEN [status |-> es.status, event |-> ev, occlusions |-> occl]
             ELSE LET r == streamline_event_times(ev, <<Chain(timelines)>>, collect, occl,
                                                  filter_fn)
                  IN  IF r.status /= "ok"
                      THEN [status |-> r.status, event |-> ev, occlusions |-> r.occlusions]
                      ELSE WriteBack(ss.setter, es.setter, ev, r.value, r.occlusions)

\* The candidate with its resolved boundaries written back, or the error raised.
streamline_event(ev, timelines, collect, occl, filter_fn) ==
    streamline_event_with(ev, timelines, collect, occl, filter_fn, DefaultAccessors)

\* The accessors TimelineOMat.streamline_event passes on: kwargs.get(name, self.name)
BoundAccessors(tm, kwargs) ==
    [start_extractor |-> KwGet(kwargs, "start_extractor", tm.start_extractor),
     stop_extractor |-> KwGet(kwargs, "stop_extractor", tm.stop_extractor),
     start_setter |-> KwGet(kwargs, "start_setter", tm.start_setter),
     stop_setter |-> KwGet(kwargs, "stop_setter", tm.stop_setter)]

TimelineOMat_streamline_event(tm, ev, timelines, kwargs, occl) ==
    IF timelines = <<>>
    THEN [status |-> "ok", event |-> ev, occlusions |-> occl]
    ELSE streamline_event_with(ev, <<Chain(timelines)>>, "occlusions" \in DOMAIN kwargs, occl,
                               KwGet(kwargs, "filter_fn", tm.filter_fn),
                               BoundAccessors(tm, kwargs))

----------------------------------------------------------------------------
(* Ordered insertion: _ordered_insert, ordered_insert *)

\* last_pos = None
None_pos == -1

\* timeline.insert(position, event), position a Python index in 0..len
InsertAt(tl, position, ev) ==
    SubSeq(tl, 1, position) \o <<ev>> \o SubSeq(tl, position + 1, Len(tl))

\* asc: "if ev_times > event_times"
AscInsertHereOrEqual(ev_times, event_times) == ~TupleLess(ev_times, event_times)

AscInsertHere(ev_times, event_times) == TupleLess(event_times, ev_times)

\* desc: "if ev_times < event_times"
DescInsertHere(ev_times, event_times) == TupleLess(ev_times, event_times)

\* The for loop "for position in range(offset, length)" from loop value p on, and
\* the fall-through after it.  consulted counts the entries read.
RECURSIVE InsertScan(_, _, _, _, _, _, _)
InsertScan(ev, event_times, tl, offset, p, last_pos, direction) ==
    LET length == Len(tl)
    IN  IF p >= length
        THEN IF direction = "asc"
             THEN [status |-> "ok", position |-> length, timeline |-> Append(tl, ev),
                   consulted |-> IF length > offset THEN length - offset ELSE 0]
             ELSE [status |-> "ok", position |-> 0, timeline |-> <<ev>> \o tl,
                   consulted |-> IF length > offset THEN length - offset ELSE 0]
        ELSE LET position == IF direction = "desc" THEN length - p - 1 ELSE p
                 t == Extract(tl[position + 1])
             IN  IF ~t.ok
                 THEN InsertScan(ev, event_times, tl, offset, p + 1, position, direction)
                 ELSE IF direction = "asc"
                 THEN IF AscInsertHere(t.times, event_times)
                      THEN [status |-> "ok", position |-> position,
                            timeline |-> InsertAt(tl, position, ev),
                            consulted |-> p - offset + 1]
                      ELSE InsertScan(ev, event_times, tl, offset, p + 1, position, direction)
                 ELSE IF DescInsertHere(t.times, event_times)
                      THEN IF last_pos = None_pos
                           \* list.insert(None, event) raises TypeError
                           THEN [status |-> "TypeError", position |-> None_pos,
                                 timeline |-> tl, consulted |-> p - offset + 1]
                           ELSE [status |-> "ok", position |-> last_pos,
                                 timeline |-> InsertAt(tl, last_pos, ev),
                                 consulted |-> p - offset + 1]
                      ELSE InsertScan(ev, event_times, tl, offset, p + 1, position, direction)

_ordered_insert(ev, tl, offset, direction) ==
    LET e == Extract(ev)
    IN  IF ~e.ok
        THEN [status |-> "SkipInvalidEvent", position |-> None_pos, timeline |-> tl,
              consulted |-> 0]
        ELSE IF Len(tl) = 0
        THEN [status |-> "ok", position |-> 0, timeline |-> <<ev>>, consulted |-> 0]
        ELSE InsertScan(ev, e.times, tl, offset, offset, None_pos, direction)

\* The offset of the returned PositionOffsetTuple; length is len(timeline) after
\* the insertion.
OffsetPastInserted(position, length, direction) ==
    IF direction = "desc" THEN length - position ELSE position

PositionOffset(position, length, direction) ==
    IF direction = "desc" THEN length - position - 1 ELSE position

\* PositionOffsetTuple(position, offset), or the error of _ordered_insert
ordered_insert(ev, tl, offset, direction) ==
    LET r == _ordered_insert(ev, tl, offset, direction)
    IN  [status |-> r.status, position |-> r.position, timeline |-> r.timeline,
         consulted |-> r.consulted,
         offset |-> IF r.status /= "ok" THEN None_pos
                    ELSE PositionOffset(r.position, Len(r.timeline), direction)]

TimelineOMat_ordered_insert(tm, ev, tl, offset, kwargs) ==
    ordered_insert(ev, tl, offset, KwGet(kwargs, "direction", tm.direction))

Directions == {"asc", "desc"}

\* The valid entries of tl are in non-decreasing (start, stop) order.
Sorted(tl) ==
    \A i, j \in 1..Len(tl) :
        (i < j /\ ValidInterval(tl[i]) /\ ValidInterval(tl[j]))
            => ~TupleLess(Interval(tl[j]), Interval(tl[i]))

InsertReturn(r, offset, direction) ==
    /\ call' = [NoCall EXCEPT !.op = "ordered_insert", !.offset = offset,
                              !.direction = direction, !.before = timeline]
    /\ ret' = [NoRet EXCEPT !.status = r.status, !.position = r.position,
                            !.offset = r.offset, !.consulted = r.consulted]
    /\ timeline' = r.timeline
    /\ UNCHANGED <<event, occlusions, stream>>

\* timelineomat.ordered_insert(event, timeline, offset=..., direction=...)
OrderedInsert ==
    /\ call.op = "none"
    /\ \E offset \in 0..Len(timeline), direction \in Directions :
          InsertReturn(ordered_insert(event, timeline, offset, direction), offset, direction)

\* TimelineOMat(direction=...).ordered_insert(event, timeline, offset=...)
MethodOrderedInsert ==
    /\ call.op = "none"
    /\ \E offset \in 0..Len(timeline), direction \in Directions :
          LET tm == TimelineOMat("None", direction)
          IN  InsertReturn(TimelineOMat_ordered_insert(tm, event, timeline, offset, NoKwargs),
                           offset, direction)

----------------------------------------------------------------------------
(* Streaming: each candidate is resolved against the accepted events, then accepted *)

StreamReturn(ev, r) ==
    /\ call' = [NoCall EXCEPT !.op = "streamline_event", !.before = timeline]
    /\ ret' = [NoRet EXCEPT !.status = r.status]
    /\ event' = r.event
    /\ timeline' = IF r.status = "ok" THEN Append(timeline, r.event) ELSE timeline
    /\ stream' = Append(stream, ev)
    /\ UNCHANGED occlusions

\* with suppress(SkipEvent): events_finished.append(streamline_event(ev, events_finished))
StreamStep ==
    /\ Len(stream) < MaxStream
    /\ \E ev \in ValidEvents :
          StreamReturn(ev, streamline_event(ev, <<timeline>>, FALSE, occlusions, "None"))

\* with suppress(SkipEvent): events_finished.append(tm.streamline_event(ev, events_finished))
MethodStreamStep ==
    /\ Len(stream) < MaxStream
    /\ \E ev \in ValidEvents :
          LET tm == TimelineOMat("None", "asc")
          IN  StreamReturn(ev, TimelineOMat_streamline_event(tm, ev, <<timeline>>,
                                                             NoKwargs, occlusions))

----------------------------------------------------------------------------
(* Specifications *)

\* One call of streamline_event_times on a candidate and a reference timeline.
Init ==
    /\ event \in Candidates
    /\ timeline \in SeqsUpTo(RefEvents, MaxRefs)
    /\ occlusions = <<>>
    /\ call = NoCall
    /\ ret = NoRet
    /\ stream = <<>>

Next ==
    \/ StreamlineEventTimes
    \/ StreamlineEventTimesOmitted
    \/ MethodStreamlineEventTimes
    \/ MethodStreamlineEventTimesOmitted

Spec == Init /\ [][Next]_vars

\* One call of ordered_insert or streamline_event_times on a timeline sorted by
\* (start, stop) that may hold invalid entries.
InitCalls ==
    /\ event \in Candidates
    /\ timeline \in {tl \in SeqsUpTo(PlainEvents, MaxLen) : Sorted(tl)}
    /\ occlusions = <<>>
    /\ call = NoCall
    /\ ret = NoRet
    /\ stream = <<>>

NextCalls ==
    \/ OrderedInsert
    \/ MethodOrderedInsert
    \/ StreamlineEventTimes
    \/ StreamlineEventTimesOmitted
    \/ MethodStreamlineEventTimes
    \/ MethodStreamlineEventTimesOmitted

SpecCalls == InitCalls /\ [][NextCalls]_vars

\* A stream of candidates resolved one by one against the accepted events.
InitStream ==
    /\ event = EmptyEvent
    /\ timeline = <<>>
    /\ occlusions = <<>>
    /\ call = NoCall
    /\ ret = NoRet
    /\ stream = <<>>

NextStream ==
    \/ StreamStep
    \/ MethodStreamStep

SpecStream == InitStream /\ [][NextStream]_vars

----------------------------------------------------------------------------
(* Properties of streaming (SpecStream) *)

\* sorted(events, key=start): a stable insertion sort by start.
RECURSIVE SortedByStart(_)
SortedByStart(evs) ==
    IF evs = <<>> THEN <<>>
    ELSE LET rest == SortedByStart(SubSeq(evs, 1, Len(evs) - 1))
             e == evs[Len(evs)]
             k == Cardinality({i \in 1..Len(rest) : rest[i].start <= e.start})
         IN  SubSeq(rest, 1, k) \o <<e>> \o SubSeq(rest, k + 1, Len(rest))

StrictlyIncreasingStarts(evs) ==
    \A i \in 1..(Len(evs) - 1) : evs[i].start < evs[i + 1].start

\* C1: however the candidates are ordered, the accepted events sorted by start
\* have no neighbouring pair with output[i].stop > output[i+1].start.
MonotonicNonOverlap ==
    LET output == SortedByStart(timeline)
    IN  \A i \in 1..(Len(output) - 1) : output[i].stop <= output[i + 1].start

\* C4: when the candidates arrive with strictly increasing start, the accepted
\* list in acceptance order has accepted[i].stop <= accepted[i+1].start after
\* every step.
StartOrderedNonOverlap ==
    StrictlyIncreasingStarts(stream)
        => \A i \in 1..(Len(timeline) - 1) : timeline[i].stop <= timeline[i + 1].start

\* A start-ordered stream whose last candidate was accepted with its start moved
\* behind an earlier accepted event.
StartOrderedShrunkWitness ==
    /\ StrictlyIncreasingStarts(stream)
    /\ Len(stream) >= 2
    /\ Len(timeline) >= 2
    /\ ret.status = "ok"
    /\ event = timeline[Len(timeline)]
    /\ event.start > stream[Len(stream)].start

----------------------------------------------------------------------------
(* Properties of streamline_event_times (Spec) *)

Resolved == call.op = "streamline_event_times"

\* The references the call was given.
GivenRefs == IF call.omitted THEN <<>> ELSE call.before

\* A reference the resolver has to respect: valid and accepted by the filter.
Obstacle(ref) == ValidInterval(ref) /\ ~(call.filter_fn /= "None" /\ ref.hidden)

Obstacles == {Interval(GivenRefs[i]) : i \in {j \in 1..Len(GivenRefs) : Obstacle(GivenRefs[j])}}

SharesSpan(s, t) == s.start < t.stop /\ t.start < s.stop

\* C2: a returned interval shares no positive-length span with any valid,
\* filter-accepted reference and cannot be extended on either side inside the
\* candidate without overlapping one; otherwise the call reports total occlusion.
ResolvedIsFreeAndMaximal ==
    (Resolved /\ ValidInterval(event)) =>
        IF ret.status = "ok"
        THEN /\ \A o \in Obstacles : ~SharesSpan(ret.value, o)
             /\ ret.value.start > event.start
                    => \E o \in Obstacles : o.start < ret.value.start /\ o.stop >= ret.value.start
             /\ ret.value.stop < event.stop
                    => \E o \in Obstacles : o.start <= ret.value.stop /\ o.stop > ret.value.stop
        ELSE ret.status = "SkipOccludedEvent"

Orderings(seq) ==
    {[i \in 1..Len(seq) |-> seq[f[i]]] :
        f \in {g \in [1..Len(seq) -> 1..Len(seq)] : \A i, j \in 1..Len(seq) : g[i] = g[j] => i = j}}

\* C3: every ordering of the references gives the same outcome: the same
\* resolved interval, or SkipOccludedEvent in both cases.
OrderIndependent ==
    (Resolved /\ ~call.omitted) =>
        \A refs \in Orderings(call.before) :
            LET r == streamline_event_times(event, <<refs>>, FALSE, <<>>, call.filter_fn)
            IN  r.status = ret.status /\ r.value = ret.value

\* C5: a FullyOccluded failure carries the candidate's original interval, and a
\* collector that was passed receives exactly one record, equal to it.
OccludedCarriesOriginal ==
    (Resolved /\ ret.status = "SkipOccludedEvent") =>
        /\ ValidInterval(event)
        /\ ret.original = Interval(event)
        /\ occlusions = IF call.collect THEN <<Interval(event)>> ELSE <<>>

\* Occluded only after a shrink: no single reference contains the candidate.
OccludedAfterShrinkWitness ==
    /\ Resolved
    /\ ret.status = "SkipOccludedEvent"
    /\ call.collect
    /\ occlusions = <<Interval(event)>>
    /\ \A o \in Obstacles : ~(o.start <= event.start /\ o.stop >= event.stop)

\* C7: when every reference is rejected by the filter, invalid, or ends at or
\* before the candidate's start or begins at or after its stop, the call returns
\* the candidate's own interval and appends no occlusion record.
DisjointRefsLeaveCandidate ==
    (/\ Resolved
     /\ ValidInterval(event)
     /\ \A i \in 1..Len(GivenRefs) :
           LET ref == GivenRefs[i]
           IN  \/ call.filter_fn /= "None" /\ ref.hidden
               \/ ~ValidInterval(ref)
               \/ ref.stop <= event.start
               \/ ref.start >= event.stop)
        => /\ ret.status = "ok"
           /\ ret.value = Interval(event)
           /\ occlusions = <<>>

\* A filtered-out reference that overlaps the candidate beside one that touches it.
DisjointRefsWitness ==
    /\ Resolved
    /\ call.collect
    /\ ValidInterval(event)
    /\ ret.status = "ok"
    /\ ret.value = Interval(event)
    /\ call.filter_fn /= "None"
    /\ \E i \in 1..Len(GivenRefs) :
          /\ GivenRefs[i].hidden
          /\ ValidInterval(GivenRefs[i])
          /\ SharesSpan(Interval(GivenRefs[i]), Interval(event))
    /\ \E i \in 1..Len(GivenRefs) :
          /\ ~GivenRefs[i].hidden
          /\ ValidInterval(GivenRefs[i])
          /\ (GivenRefs[i].stop = event.start \/ GivenRefs[i].start = event.stop)

\* C8: on success with a collector, the records appended are the clipped prefix
\* (O.start, F.start) if the start moved, then the clipped suffix (F.stop, O.stop)
\* if the stop moved, and nothing else; with F they partition O.
SuccessOcclusionRecords ==
    (Resolved /\ ret.status = "ok") =>
        LET O == Interval(event)
            F == ret.value
            prefix == IF F.start /= O.start THEN <<TimeRangeTuple(O.start, F.start)>> ELSE <<>>
            suffix == IF F.stop /= O.stop THEN <<TimeRangeTuple(F.stop, O.stop)>> ELSE <<>>
        IN  /\ ValidInterval(event)
            /\ O.start <= F.start /\ F.start < F.stop /\ F.stop <= O.stop
            /\ occlusions = IF call.collect THEN prefix \o suffix ELSE <<>>

\* Both sides clipped: two records.
BothSidesClippedWitness ==
    /\ Resolved
    /\ ret.status = "ok"
    /\ call.collect
    /\ ret.value.start > event.start
    /\ ret.value.stop < event.stop
    /\ Len(occlusions) = 2

----------------------------------------------------------------------------
(* Properties of single calls on a sorted timeline (SpecCalls) *)

Inserted == call.op = "ordered_insert"

\* tl with ev placed at Python index idx.
WithEntryAt(tl, idx, ev) ==
    [i \in 1..(Len(tl) + 1) |->
        IF i <= idx THEN tl[i] ELSE IF i = idx + 1 THEN ev ELSE tl[i - 1]]

SetMin(S) == CHOOSE x \in S : \A y \in S : x <= y

SetMax(S) == CHOOSE x \in S : \A y \in S : x >= y

\* C6: a candidate with stop <= start fails with SkipInvalidEvent in
\* streamline_event_times and in ordered_insert, whether the references are
\* omitted, empty or not; no reference is consulted, no occlusion record is
\* emitted and the timeline is unchanged.
InvalidCandidateRejected ==
    (/\ call.op /= "none"
     /\ "start" \in DOMAIN event /\ "stop" \in DOMAIN event
     /\ event.stop <= event.start)
        => /\ ret.status = "SkipInvalidEvent"
           /\ ret.consulted = 0
           /\ occlusions = <<>>
           /\ timeline = call.before

\* ordered_insert of a zero-duration candidate into a non-empty timeline.
InvalidInsertWitness ==
    /\ Inserted
    /\ "start" \in DOMAIN event /\ "stop" \in DOMAIN event
    /\ event.stop = event.start
    /\ Len(call.before) > 0
    /\ \E i \in 1..Len(call.before) : ValidInterval(call.before[i])
    /\ ret.status = "SkipInvalidEvent"

\* The Python index ascending insertion must choose: the first entry at or after
\* offset k that is valid and strictly greater, else the end.
AscIndex(before, k, ev) ==
    LET above == {i \in k..(Len(before) - 1) :
                     /\ ValidInterval(before[i + 1])
                     /\ TupleLess(Interval(ev), Interval(before[i + 1]))}
    IN  IF above = {} THEN Len(before) ELSE SetMin(above)

\* C9: ascending ordered_insert of a valid event with offset k inserts it at the
\* index of the first valid, strictly greater entry at or after k, or appends it;
\* invalid entries are skipped without error; in the sorted timeline the event
\* lands after every entry equal to it; position and offset are that index.
AscInsertPosition ==
    (Inserted /\ call.direction = "asc" /\ ValidInterval(event)) =>
        LET idx == AscIndex(call.before, call.offset, event)
        IN  /\ ret.status = "ok"
            /\ ret.position = idx
            /\ ret.offset = idx
            /\ timeline = WithEntryAt(call.before, idx, event)
            /\ Sorted(call.before) =>
                   \A j \in 1..Len(call.before) :
                       (ValidInterval(call.before[j]) /\ Interval(call.before[j]) = Interval(event))
                           => j - 1 < idx

\* An equal entry and a skipped invalid entry before the insertion point, which
\* is not the end.
AscInsertTieWitness ==
    /\ Inserted
    /\ call.direction = "asc"
    /\ ValidInterval(event)
    /\ ret.status = "ok"
    /\ ret.position < Len(call.before)
    /\ \E j \in 1..Len(call.before) :
          /\ j > call.offset
          /\ j <= ret.position
          /\ ValidInterval(call.before[j])
          /\ Interval(call.before[j]) = Interval(event)
    /\ \E j \in 1..Len(call.before) :
          j > call.offset /\ j <= ret.position /\ ~ValidInterval(call.before[j])

\* The Python index descending insertion must choose: right after the last valid
\* entry strictly below, else 0.
DescIndex(before, ev) ==
    LET below == {i \in 0..(Len(before) - 1) :
                     /\ ValidInterval(before[i + 1])
                     /\ TupleLess(Interval(before[i + 1]), Interval(ev))}
    IN  IF below = {} THEN 0 ELSE SetMax(below) + 1

\* C10: descending ordered_insert with offset 0 into a sorted timeline inserts
\* every valid event right after the last entry strictly below it, or at index 0;
\* position is that index and offset = len(timeline) - position - 1.
DescInsertPosition ==
    (/\ Inserted
     /\ call.direction = "desc"
     /\ call.offset = 0
     /\ ValidInterval(event)
     /\ Sorted(call.before))
        => LET idx == DescIndex(call.before, event)
           IN  /\ ret.status = "ok"
               /\ ret.position = idx
               /\ ret.offset = Len(timeline) - idx - 1
               /\ timeline = WithEntryAt(call.before, idx, event)

\* C11: for every offset in 0..len(timeline) and either direction, ordered_insert
\* of a valid event into a sorted timeline completes and leaves the whole
\* timeline sorted by (start, stop).
AnyOffsetKeepsSorted ==
    (Inserted /\ ValidInterval(event) /\ Sorted(call.before))
        => /\ ret.status = "ok"
           /\ Len(timeline) = Len(call.before) + 1
           /\ Sorted(timeline)

----------------------------------------------------------------------------
(* Batches: repeated ordered_insert, each call seeded with the offset returned
   by the call before it *)

\* The offset handed to the next call of a batch: 0 for the first call.
NextOffset == IF ret.status = "ok" THEN ret.offset ELSE 0

\* The batch is ordered as the direction asks: not below the event inserted
\* before it for asc, not above it for desc.
InBatchOrder(ev) ==
    IF stream = <<>> THEN TRUE
    ELSE IF call.direction = "asc"
    THEN ~TupleLess(Interval(ev), Interval(stream[Len(stream)]))
    ELSE ~TupleLess(Interval(stream[Len(stream)]), Interval(ev))

BatchReturn(ev, r, offset) ==
    /\ call' = [call EXCEPT !.op = "ordered_insert", !.offset = offset, !.before = timeline]
    /\ ret' = [NoRet EXCEPT !.status = r.status, !.position = r.position,
                            !.offset = r.offset, !.consulted = r.consulted]
    /\ event' = ev
    /\ timeline' = r.timeline
    /\ stream' = Append(stream, ev)
    /\ UNCHANGED occlusions

\* position, offset = ordered_insert(ev, timeline, offset=offset, direction=...)
BatchInsert ==
    /\ Len(stream) < MaxStream
    /\ ret.status \in {"none", "ok"}
    /\ \E ev \in ValidEvents :
          /\ InBatchOrder(ev)
          /\ BatchReturn(ev, ordered_insert(ev, timeline, NextOffset, call.direction), NextOffset)

\* position, offset = tm.ordered_insert(ev, timeline, offset=offset)
MethodBatchInsert ==
    /\ Len(stream) < MaxStream
    /\ ret.status \in {"none", "ok"}
    /\ \E ev \in ValidEvents :
          /\ InBatchOrder(ev)
          /\ LET tm == TimelineOMat("None", call.direction)
             IN  BatchReturn(ev, TimelineOMat_ordered_insert(tm, ev, timeline, NextOffset, NoKwargs),
                             NextOffset)

\* A batch inserted into a sorted timeline that may hold invalid entries.
InitBatch ==
    /\ event = EmptyEvent
    /\ timeline \in {tl \in SeqsUpTo(PlainEvents, MaxRefs) : Sorted(tl)}
    /\ occlusions = <<>>
    /\ \E direction \in Directions : call = [NoCall EXCEPT !.direction = direction]
    /\ ret = NoRet
    /\ stream = <<>>

NextBatch ==
    \/ BatchInsert
    \/ MethodBatchInsert

SpecBatch == InitBatch /\ [][NextBatch]_vars

\* C12: in a batch that is non-decreasing (asc) or non-increasing (desc) by
\* (start, stop), every call seeded with the offset the previous call returned
\* gives the position, the offset and the timeline that the same call with
\* offset 0 gives on the same timeline; holding after every call of the batch,
\* the two ways of inserting the batch agree on all positions and on the final
\* timeline.
ResumeOffsetEquivalent ==
    (call.op = "ordered_insert" /\ Len(stream) >= 1) =>
        LET r0 == ordered_insert(event, call.before, 0, call.direction)
        IN  /\ ret.status = r0.status
            /\ ret.position = r0.position
            /\ ret.offset = r0.offset
            /\ timeline = r0.timeline

\* A descending batch whose third call resumes past entries it no longer reads
\* and lands between two entries.
ResumedDescWitness ==
    /\ call.op = "ordered_insert"
    /\ call.direction = "desc"
    /\ Len(stream) = 3
    /\ call.offset > 1
    /\ ret.status = "ok"
    /\ ret.position > 0
    /\ ret.position < Len(call.before)
    /\ ret.consulted < Len(call.before)

----------------------------------------------------------------------------
(* Resolve, then insert: streamlined_ordered_insert *)

\* _array_window(array, offset, direction): the entries from offset on, from the
\* end backwards for desc.
_array_window(array, offset, direction) ==
    LET length == Len(array)
    IN  IF offset >= length THEN <<>>
        ELSE IF direction = "asc"
        THEN [i \in 1..(length - offset) |-> array[offset + i]]
        ELSE [i \in 1..(length - offset) |-> array[length - (offset + i - 1)]]

\* streamlined_ordered_insert left by an error before the insertion.
InsertFailed(status, ev, tl, occl) ==
    [status |-> status, event |-> ev, timeline |-> tl, position |-> None_pos,
     offset |-> None_pos, occlusions |-> occl]

\* Lines 338-355: ordered_insert of the event streamline_event returned; m is
\* the outcome of streamline_event.
InsertResolved(m, r) ==
    [status |-> r.status, event |-> m.event, timeline |-> r.timeline,
     position |-> r.position, offset |-> r.offset, occlusions |-> m.occlusions]

InsertAfterResolve(m, tl, offset, direction) ==
    IF m.status /= "ok"
    THEN InsertFailed(m.status, m.event, tl, m.occlusions)
    ELSE InsertResolved(m, ordered_insert(m.event, tl, offset, direction))

\* Lines 336-337 and 343-346: the callables handed to streamline_event.
CallableAccessors(acc, start_setter, stop_setter) ==
    [start_extractor |-> IF acc.start_extractor \in FieldNames
                         THEN NameExtractor(acc.start_extractor) ELSE acc.start_extractor,
     stop_extractor |-> IF acc.stop_extractor \in FieldNames
                        THEN NameExtractor(acc.stop_extractor) ELSE acc.stop_extractor,
     start_setter |-> start_setter, stop_setter |-> stop_setter]

\* The filter_fn parameter of line 317 is named in no call of the body: the
\* resolve of lines 339-348 runs without a filter.
streamlined_ordered_insert(ev, tl, offset, direction, filter_fn, collect, occl, acc) ==
    LET ss == IF acc.start_setter /= "None"
              THEN NewSetter(acc.start_setter, FALSE, FALSE)
              ELSE NewSetter(acc.start_extractor, FALSE, TRUE)
        es == IF acc.stop_setter /= "None"
              THEN NewSetter(acc.stop_setter, FALSE, FALSE)
              ELSE NewSetter(acc.stop_extractor, FALSE, TRUE)
    IN  IF ss.status /= "ok" THEN InsertFailed(ss.status, ev, tl, occl)
        ELSE IF es.status /= "ok" THEN InsertFailed(es.status, ev, tl, occl)
        ELSE InsertAfterResolve(
                 streamline_event_with(ev, <<_array_window(tl, offset, direction)>>, collect,
                                       occl, "None",
                                       CallableAccessors(acc, ss.setter, es.setter)),
                 tl, offset, direction)

TimelineOMat_streamlined_ordered_insert(tm, ev, tl, offset, kwargs, occl) ==
    streamlined_ordered_insert(ev, tl, offset, KwGet(kwargs, "direction", tm.direction),
                               KwGet(kwargs, "filter_fn", tm.filter_fn),
                               "occlusions" \in DOMAIN kwargs, occl, BoundAccessors(tm, kwargs))

\* Candidates of a stream: valid events, some of them hidden from the filter.
StreamCandidates == ValidEvents \cup {Ev(e.start, e.stop, TRUE) : e \in ValidEvents}

\* The offset handed to the next call: the one returned last, kept over a call
\* that raised SkipEvent.
ResumeOffset == IF ret.status = "ok" THEN ret.offset ELSE call.offset

CombinedReturn(ev, r, offset, op) ==
    /\ call' = [call EXCEPT !.op = op, !.offset = offset, !.before = timeline]
    /\ ret' = [NoRet EXCEPT !.status = r.status, !.position = r.position, !.offset = r.offset]
    /\ event' = r.event
    /\ timeline' = r.timeline
    /\ stream' = Append(stream, ev)
    /\ occlusions' = r.occlusions

\* position, offset = streamlined_ordered_insert(ev, timeline, offset=offset,
\*                                               direction=..., filter_fn=...)
\* A SkipEvent is caught by the caller; any other error ends the run.
StreamlinedOrderedInsert ==
    /\ Len(stream) < MaxStream
    /\ ret.status \in {"none", "ok", "SkipOccludedEvent", "SkipInvalidEvent"}
    /\ \E ev \in StreamCandidates :
          CombinedReturn(ev,
                         streamlined_ordered_insert(ev, timeline, ResumeOffset, call.direction,
                                                    call.filter_fn, FALSE, occlusions,
                                                    DefaultAccessors),
                         ResumeOffset, "streamlined_ordered_insert")

\* tm = TimelineOMat(direction=..., filter_fn=...);
\* position, offset = tm.streamlined_ordered_insert(ev, timeline, offset=offset)
MethodStreamlinedOrderedInsert ==
    /\ Len(stream) < MaxStream
    /\ ret.status \in {"none", "ok", "SkipOccludedEvent", "SkipInvalidEvent"}
    /\ \E ev \in StreamCandidates :
          LET tm == TimelineOMat(call.filter_fn, call.direction)
          IN  CombinedReturn(ev,
                             TimelineOMat_streamlined_ordered_insert(tm, ev, timeline, ResumeOffset,
                                                                     NoKwargs, occlusions),
                             ResumeOffset, "TimelineOMat.streamlined_ordered_insert")

\* A stream of candidates resolved and inserted one by one into a timeline that
\* starts empty, under one direction and one filter.
InitCombined ==
    /\ event = EmptyEvent
    /\ timeline = <<>>
    /\ occlusions = <<>>
    /\ \E direction \in Directions, filter_fn \in FilterFns :
          call = [NoCall EXCEPT !.direction = direction, !.filter_fn = filter_fn]
    /\ ret = NoRet
    /\ stream = <<>>

NextCombined ==
    \/ StreamlinedOrderedInsert
    \/ MethodStreamlinedOrderedInsert

SpecCombined == InitCombined /\ [][NextCombined]_vars

Combined == call.op \in {"streamlined_ordered_insert", "TimelineOMat.streamlined_ordered_insert"}

StrictlyIncreasing(evs) ==
    \A i \in 1..(Len(evs) - 1) : TupleLess(Interval(evs[i]), Interval(evs[i + 1]))

\* The first n candidates of s handled in two separate steps each,
\* streamline_event against the whole timeline and then ordered_insert; a
\* SkipEvent drops the candidate, any other error ends the run.
RECURSIVE TwoSteps(_, _, _)
TwoSteps(s, n, direction) ==
    IF n = 0 THEN [timeline |-> <<>>, status |-> "none", ended |-> FALSE]
    ELSE LET prev == TwoSteps(s, n - 1, direction)
         IN  IF prev.ended THEN prev
             ELSE LET m == streamline_event(s[n], <<prev.timeline>>, FALSE, <<>>, "None")
                  IN  IF m.status /= "ok"
                      THEN [timeline |-> prev.timeline, status |-> m.status, ended |-> FALSE]
                      ELSE LET r == ordered_insert(m.event, prev.timeline, 0, direction)
                           IN  [timeline |-> r.timeline, status |-> r.status,
                                ended |-> r.status /= "ok"]

\* C13: after every call of streamlined_ordered_insert on a strictly increasing
\* stream, started on an empty timeline and seeded with the returned offsets,
\* the timeline equals, element for element, the one built by streamline_event
\* against the whole timeline followed by ordered_insert, and the candidate is
\* dropped by both or by neither.
CombinedEqualsTwoSteps ==
    (Combined /\ call.filter_fn = "None" /\ StrictlyIncreasing(stream)) =>
        LET two == TwoSteps(stream, Len(stream), call.direction)
        IN  /\ timeline = two.timeline
            /\ ret.status = two.status

\* C14: with a filter passed to streamlined_ordered_insert or bound to the
\* TimelineOMat, a candidate whose every overlapping timeline entry is rejected
\* by the filter is neither shrunk nor dropped as occluded.
FilterHonouredOnInsert ==
    (/\ Combined
     /\ call.filter_fn /= "None"
     /\ \A i \in 1..Len(call.before) :
           \/ call.before[i].hidden
           \/ ~SharesSpan(Interval(call.before[i]), Interval(stream[Len(stream)])))
        => /\ ret.status /= "SkipOccludedEvent"
           /\ Interval(event) = Interval(stream[Len(stream)])

----------------------------------------------------------------------------
(* The pass of _streamline_event_times, one reference at a time *)

Passing == call.op = "_streamline_event_times" /\ ret.status = "running"

\* Lines 154-156: the candidate's interval is extracted; start, stop = orig_tuple.
\* ret.value holds (start, stop), ret.consulted the references taken so far.
PassBegin ==
    /\ call.op = "none"
    /\ \E filter_fn \in FilterFns :
          LET o == Extract(event)
          IN  /\ call' = [NoCall EXCEPT !.op = "_streamline_event_times",
                                        !.filter_fn = filter_fn, !.before = timeline]
              /\ ret' = IF o.ok
                        THEN [NoRet EXCEPT !.status = "running", !.value = o.times,
                                           !.original = o.times]
                        ELSE [NoRet EXCEPT !.status = "SkipInvalidEvent"]
    /\ UNCHANGED <<event, timeline, occlusions, stream>>

\* Lines 159-173: one iteration of "for ev in timeline".
PassStep ==
    /\ Passing
    /\ ret.consulted < Len(timeline)
    /\ LET ev == timeline[ret.consulted + 1]
           t == Extract(ev)
           start == ret.value.start
           stop == ret.value.stop
           start2 == LeftShrink(t.times, start)
           stop2 == RightShrink(t.times, stop)
       IN  ret' = IF FilterRejects(call.filter_fn, ev) \/ ~t.ok
                  THEN [ret EXCEPT !.consulted = @ + 1]
                  ELSE IF FullyContains(t.times, start, stop)
                  THEN [ret EXCEPT !.consulted = @ + 1, !.status = "SkipOccludedEvent"]
                  ELSE IF stop2 <= start2
                  THEN [ret EXCEPT !.consulted = @ + 1, !.status = "SkipOccludedEvent",
                                   !.value = TimeRangeTuple(start2, stop2)]
                  ELSE [ret EXCEPT !.consulted = @ + 1, !.value = TimeRangeTuple(start2, stop2)]
    /\ UNCHANGED <<event, timeline, occlusions, call, stream>>

\* Line 174: return TimeRangeTuple(start=start, stop=stop), orig_tuple
PassReturn ==
    /\ Passing
    /\ ret.consulted = Len(timeline)
    /\ ret' = [ret EXCEPT !.status = "ok"]
    /\ UNCHANGED <<event, timeline, occlusions, call, stream>>

InitPass ==
    /\ event \in Candidates
    /\ timeline \in SeqsUpTo(RefEvents, MaxRefs)
    /\ occlusions = <<>>
    /\ call = NoCall
    /\ ret = NoRet
    /\ stream = <<>>

NextPass ==
    \/ PassBegin
    \/ PassStep
    \/ PassReturn

SpecPass == InitPass /\ [][NextPass]_vars

\* The reference the pass takes next is one the resolver has to respect.
NextIsObstacle ==
    /\ ret.consulted < Len(timeline)
    /\ Obstacle(timeline[ret.consulted + 1])

\* C15: during the pass the start never decreases and the stop never increases;
\* a reference that covers the current start (stop) of the already-shrunk
\* candidate without containing it moves the start (stop) to its own stop
\* (start), whatever the original boundaries were; and a returned interval has
\* original.start <= start < stop <= original.stop.
ShrinkMonotoneCumulative ==
    /\ [](ret.status = "ok" /\ call.op = "_streamline_event_times"
            => /\ ret.original = Interval(event)
               /\ ret.original.start <= ret.value.start
               /\ ret.value.start < ret.value.stop
               /\ ret.value.stop <= ret.original.stop)
    /\ [][Passing =>
            /\ ret'.value.start >= ret.value.start
            /\ ret'.value.stop <= ret.value.stop
            /\ NextIsObstacle =>
                  LET ref == Interval(timeline[ret.consulted + 1])
                      cur == ret.value
                  IN  \/ ref.start <= cur.start /\ ref.stop >= cur.stop
                      \/ /\ (ref.start <= cur.start /\ ref.stop > cur.start)
                               => ret'.value.start = ref.stop
                         /\ (ref.start < cur.stop /\ ref.stop >= cur.stop)
                               => ret'.value.stop = ref.start
                         /\ ~(ref.start <= cur.start /\ ref.stop > cur.start)
                               => ret'.value.start = cur.start
                         /\ ~(ref.start < cur.stop /\ ref.stop >= cur.stop)
                               => ret'.value.stop = cur.stop]_vars

\* A returned interval whose start was moved by the second reference, which
\* begins after the original start and so covers only the already-shrunk one.
ShrunkTwiceWitness ==
    /\ call.op = "_streamline_event_times"
    /\ ret.status = "ok"
    /\ Len(timeline) = 2
    /\ Obstacle(timeline[1]) /\ Obstacle(timeline[2])
    /\ timeline[1].start <= event.start
    /\ timeline[2].start > event.start
    /\ ret.value.start = timeline[2].stop

----------------------------------------------------------------------------
(* Calls of streamline_event under every combination of extractors and setters *)

MutateReturn(r, acc, op) ==
    /\ call' = [NoCall EXCEPT !.op = op, !.accessors = acc, !.before = timeline]
    /\ ret' = [NoRet EXCEPT !.status = r.status]
    /\ event' = r.event
    /\ occlusions' = r.occlusions
    /\ stream' = <<event>>
    /\ UNCHANGED timeline

\* streamline_event(event, timeline, start_extractor=..., stop_extractor=...,
\*                  start_setter=..., stop_setter=...)
StreamlineEvent ==
    /\ call.op = "none"
    /\ \E acc \in Accessors :
          MutateReturn(streamline_event_with(event, <<timeline>>, FALSE, occlusions, "None", acc),
                       acc, "streamline_event")

\* TimelineOMat(start_extractor=..., ...).streamline_event(event, timeline)
MethodStreamlineEvent ==
    /\ call.op = "none"
    /\ \E acc \in Accessors :
          LET tm == TimelineOMat_init(acc, "None", "asc")
          IN  MutateReturn(TimelineOMat_streamline_event(tm, event, <<timeline>>, NoKwargs,
                                                         occlusions),
                           acc, "TimelineOMat.streamline_event")

\* TimelineOMat().streamline_event(event, timeline, start_extractor=..., ...):
\* a setter that is None is not passed.
MethodStreamlineEventKwargs ==
    /\ call.op = "none"
    /\ \E acc \in Accessors :
          LET tm == TimelineOMat("None", "asc")
              keys == {"start_extractor", "stop_extractor"}
                          \cup {k \in {"start_setter", "stop_setter"} : acc[k] /= "None"}
              kwargs == [k \in keys |-> acc[k]]
          IN  MutateReturn(TimelineOMat_streamline_event(tm, event, <<timeline>>, kwargs,
                                                         occlusions),
                           acc, "TimelineOMat.streamline_event(**kwargs)")

InitMutate ==
    /\ event \in Candidates
    /\ timeline \in SeqsUpTo(PlainEvents, MaxRefs)
    /\ occlusions = <<>>
    /\ call = NoCall
    /\ ret = NoRet
    /\ stream = <<>>

NextMutate ==
    \/ StreamlineEvent
    \/ MethodStreamlineEvent
    \/ MethodStreamlineEventKwargs

SpecMutate == InitMutate /\ [][NextMutate]_vars

Mutated ==
    call.op \in {"streamline_event", "TimelineOMat.streamline_event",
                 "TimelineOMat.streamline_event(**kwargs)"}

\* C16: a call of streamline_event that raises leaves the event's start and stop
\* as they were and the reference timeline unchanged; a call that returns has
\* written both boundaries.
ErrorLeavesEventUntouched ==
    Mutated =>
        /\ timeline = call.before
        /\ ret.status /= "ok" => event = stream[1]
        /\ ret.status = "ok" =>
               /\ ValidInterval(stream[1]) /\ ValidInterval(event)
               /\ stream[1].start <= event.start /\ event.stop <= stream[1].stop

====
